---- MODULE Spec2Model ----
(***************************************************************************)
(* Session store of mobile_app_server (src/local_db.py): one table of      *)
(* session rows in PostgreSQL, reached through the process-wide handle     *)
(* DB_CONN.  The operations are store_user_auth (issue), is_valid_token    *)
(* (isValid: a select statement followed by a separate sweep statement),   *)
(* get_login_by_token, get_role_id_by_token and remove_token (revoke).     *)
(*                                                                         *)
(* Time is counted in ticks, TicksPerSec ticks to a second.  The column    *)
(* expires is TIMESTAMP(0): it holds whole seconds, and storing a value    *)
(* rounds it to the nearest second.  token and login are CHAR(64): values  *)
(* are blank-padded to 64 characters and compared without regard to        *)
(* trailing blanks.  Strings are sequences of one-character strings.       *)
(* datetime.now() of the process and current_timestamp of the backend      *)
(* read one clock, which never runs backwards.                             *)
(***************************************************************************)
EXTENDS Integers, Sequences, FiniteSets, TLC

\* ---------------------------------------------------------------- bounds
TicksPerSec == 2      \* clock resolution of the model (ticks per second)
MaxEpoch    == 1      \* the clock visits instants k*TTL + j, k in 0..MaxEpoch
MaxOffset   == 1      \*   and j in 0..MaxOffset ticks
MaxIssued   == 2      \* rows ever inserted (values of the SERIAL id)
NumCallers  == 2      \* concurrent request handlers
NumTokens   == 2      \* distinct values _generate_token may return

\* ------------------------------------------------------ program constants
TTL   == 43200        \* datetime.timedelta(hours=12), in seconds
Width == 64           \* CHAR(64)

TTLTicks == TTL * TicksPerSec

Callers == 1 .. NumCallers

\* Instants the clock may show: around every multiple of TTL.
Instants == { k * TTLTicks + j : k \in 0 .. MaxEpoch, j \in 0 .. MaxOffset }

\* ---------------------------------------------------------------- strings
Blank == " "

HexChars == << "0", "1", "2", "3", "4", "5", "6", "7",
               "8", "9", "a", "b", "c", "d", "e", "f" >>

\* secrets.token_hex(32): 64 hexadecimal characters.  The model draws from
\* NumTokens of the 16^64 values, so that a repeated value can occur.
TokenHex == { [ i \in 1 .. Width |-> HexChars[n] ] : n \in 1 .. NumTokens }

\* The (login, role_id) pairs a caller passes to store_user_auth.
Users == { [ login |-> << "a" >>, role_id |-> 1 ],
           [ login |-> << Blank, "b" >>, role_id |-> 2 ] }

\* Tokens a caller passes to the token-taking operations: the generated
\* ones, and one of them with a trailing blank appended.
QueryTokens ==
    TokenHex \cup { Append([ i \in 1 .. Width |-> HexChars[1] ], Blank) }

\* Number of characters of s up to its last non-blank one.
RLen(s) ==
    CHOOSE n \in 0 .. Len(s) :
        /\ n = 0 \/ s[n] # Blank
        /\ \A j \in (n + 1) .. Len(s) : s[j] = Blank

\* Number of leading blanks of s.
LBlanks(s) ==
    CHOOSE n \in 0 .. Len(s) :
        /\ n = Len(s) \/ s[n + 1] # Blank
        /\ \A j \in 1 .. n : s[j] = Blank

\* s without its trailing blanks (the first two branches are the cases of
\* no trailing blank and of exactly one, decided without a scan).
RTrim(s) ==
    IF Len(s) = 0 \/ s[Len(s)] # Blank THEN s
    ELSE IF Len(s) > 1 /\ s[Len(s) - 1] # Blank THEN SubSeq(s, 1, Len(s) - 1)
    ELSE SubSeq(s, 1, RLen(s))

\* s without its leading blanks.
LTrim(s) ==
    IF Len(s) = 0 \/ s[1] # Blank THEN s ELSE SubSeq(s, LBlanks(s) + 1, Len(s))

\* str.strip(): leading and trailing whitespace removed.
Strip(s) == LTrim(RTrim(s))

\* Storing s in a CHAR(64) column: blank-padded to Width characters.
Pad(s) == s \o [ i \in 1 .. (Width - Len(s)) |-> Blank ]

\* Equality of CHAR(n) values: trailing blanks are not significant.
BpcharEq(a, b) == RTrim(a) = RTrim(b)

\* ------------------------------------------------------------------- time
\* A store that drops the fraction of a second instead of rounding.
TimestampTruncate(t) == t \div TicksPerSec

\* Storing the instant t (ticks) in a TIMESTAMP(0) column: the nearest whole
\* second, halves rounded up.
TimestampRound(t) == (2 * t + TicksPerSec) \div (2 * TicksPerSec)

\* The comparison with >= in place of >.
UnexpiredInclusive(r, t) == r.expires * TicksPerSec >= t

\* expires > current_timestamp, with current_timestamp = t ticks.
Unexpired(r, t) == r.expires * TicksPerSec > t

\* The comparison with < in place of <=.
ExpiredStrict(r, t) == r.expires * TicksPerSec < t

\* expires <= current_timestamp, with current_timestamp = t ticks.
Expired(r, t) == r.expires * TicksPerSec <= t

\* ------------------------------------------------------------ statements
\* WHERE token = $1
Matching(tbl, t) == { r \in tbl : BpcharEq(r.token, t) }

\* SELECT exists (SELECT 1 FROM sessions
\*                WHERE token = $1 AND expires > current_timestamp LIMIT 1)
SelectExists(tbl, t, ts) == \E r \in Matching(tbl, t) : Unexpired(r, ts)

\* A delete without its WHERE clause: every row goes.
SweepUnfiltered(tbl, ts) == {}

\* DELETE FROM sessions WHERE expires <= current_timestamp
Sweep(tbl, ts) == { r \in tbl : ~ Expired(r, ts) }

\* A delete that removes only the oldest of the matching rows.
DeleteOneByToken(tbl, t) ==
    { r \in tbl : \/ ~ BpcharEq(r.token, t)
                  \/ \E q \in tbl : BpcharEq(q.token, t) /\ q.id < r.id }

\* DELETE FROM sessions WHERE token = $1
DeleteByToken(tbl, t) == tbl \ Matching(tbl, t)

\* An insert that replaces the rows holding the same token.
InsertReplacing(tbl, row) ==
    { r \in tbl : r.token # row.token } \cup { row }

\* INSERT INTO sessions (token, login, role_id, expires) VALUES (...)
\* The table has no constraint besides the primary key id.
Insert(tbl, row) == tbl \cup { row }

\* ------------------------------------------------------------------ state
VARIABLES
    DB_CONN,    \* the process-wide handle: "None", "open" or "closed"
    hook,       \* the exit hook _close_db: "registered" while the process
                \*   runs, then how its run at exit ended
    sessions,   \* the table sessions: a set of rows
    nextId,     \* next value of the SERIAL column id
    now,        \* the clock, in ticks
    pc,         \* pc[c]: "idle", or "sweep" between the two statements
                \*        of is_valid_token
    tok,        \* tok[c]: the argument of the pending is_valid_token
    res,        \* res[c]: the result of its select
    callAt,     \* callAt[c]: the clock when its select ran
    last,       \* the operation completed last and what it returned
    created,    \* history, for the rows in the table: created[id] = the
                \*   login and role_id store_user_auth was given, and the
                \*   clock at that call
    gate        \* history: the token for which the operation completed
                \*   last was an is_valid_token that returned true

vars == << DB_CONN, hook, sessions, nextId, now, pc, tok, res, callAt, last,
           created, gate >>

NoToken == << >>

Done(op, status, ret) == [ op |-> op, status |-> status, ret |-> ret ]

\* The five operations, and for each a value of the type it returns.
Operations ==
    { "store_user_auth", "is_valid_token", "get_login_by_token",
      "get_role_id_by_token", "remove_token" }

NoResult(op) ==
    CASE op = "store_user_auth"      -> NoToken
      [] op = "is_valid_token"       -> FALSE
      [] op = "get_login_by_token"   -> << >>
      [] op = "get_role_id_by_token" -> 0
      [] OTHER                       -> "none"

\* An exception caught and turned into a normal return of no value.
Swallow(op, exception) == Done(op, "ok", NoResult(op))

\* The outcome of the operation op stopped by an exception: nothing is
\* returned.
Raise(op, exception) == Done(op, exception, NoResult(op))

\* A lookup that returns None when no row is found.
EmptyResultNone(op) == Done(op, "ok", NoResult(op))

\* res[0][0] on the empty list of rows: IndexError.
EmptyResult(op) == Raise(op, "IndexError")

\* The history, kept for the rows that are in the table tbl.
Kept(hist, tbl) == [ i \in { r.id : r \in tbl } |-> hist[i] ]

Init ==
    /\ DB_CONN = "None"
    /\ hook = "registered"
    /\ sessions = {}
    /\ nextId = 1
    /\ now = 0
    /\ pc = [ c \in Callers |-> "idle" ]
    /\ tok = [ c \in Callers |-> NoToken ]
    /\ res = [ c \in Callers |-> FALSE ]
    /\ callAt = [ c \in Callers |-> 0 ]
    /\ last = Done("start", "ok", "none")
    /\ created = << >>
    /\ gate = NoToken

\* ---------------------------------------------------------------- actions
\* configure_db(), the database is reachable: the shared handle is opened.
configure_db_direct ==
    /\ hook = "registered"
    /\ DB_CONN = "None"
    /\ DB_CONN' = "open"
    /\ last' = Done("configure_db", "ok", "none")
    /\ gate' = NoToken
    /\ UNCHANGED << hook, sessions, nextId, now, pc, tok, res, callAt,
                    created >>

\* configure_db(), the database is not reachable but the server is: user and
\* database are dropped and created again, the empty table sessions is
\* created, and the shared handle is opened.
configure_db_bootstrap ==
    /\ hook = "registered"
    /\ DB_CONN = "None"
    /\ sessions' = {}
    /\ created' = << >>
    /\ nextId' = 1
    /\ DB_CONN' = "open"
    /\ last' = Done("configure_db", "ok", "none")
    /\ gate' = NoToken
    /\ UNCHANGED << hook, now, pc, tok, res, callAt >>

\* configure_db(), the server is not reachable either: exit(1).  The exit
\* runs the registered hook _close_db, whose DB_CONN.close() on None raises
\* AttributeError.
configure_db_exit ==
    /\ hook = "registered"
    /\ DB_CONN = "None"
    /\ hook' = "AttributeError"
    /\ last' = Done("configure_db", "SystemExit", "none")
    /\ gate' = NoToken
    /\ UNCHANGED << DB_CONN, sessions, nextId, now, pc, tok, res, callAt,
                    created >>

\* configure_db()
configure_db ==
    \/ configure_db_direct
    \/ configure_db_bootstrap
    \/ configure_db_exit

\* The process exits normally once its request handlers are done; the exit
\* runs the registered hook _close_db: DB_CONN.close().
close_db ==
    /\ hook = "registered"
    /\ \A c \in Callers : pc[c] = "idle"
    /\ IF DB_CONN = "open"
       THEN /\ DB_CONN' = "closed"
            /\ hook' = "closed"
            /\ last' = Done("_close_db", "ok", "none")
       ELSE /\ DB_CONN' = DB_CONN
            /\ hook' = "AttributeError"
            /\ last' = Done("_close_db", "AttributeError", "none")
    /\ gate' = NoToken
    /\ UNCHANGED << sessions, nextId, now, pc, tok, res, callAt, created >>

\* The clock advances.
Tick ==
    /\ hook = "registered"
    /\ \E t \in Instants : t > now /\ now' = t
    /\ last' = Done("tick", "ok", "none")
    /\ UNCHANGED << DB_CONN, hook, sessions, nextId, pc, tok, res, callAt,
                    created, gate >>

\* store_user_auth(login, role_id)
store_user_auth(c, login, role_id) ==
    /\ DB_CONN = "open"
    /\ pc[c] = "idle"
    /\ nextId <= MaxIssued
    /\ \E token \in TokenHex :
         LET expires == TimestampRound(now + TTLTicks)
             row == [ id |-> nextId, token |-> Pad(token),
                      login |-> Pad(login), role_id |-> role_id,
                      expires |-> expires ]
         IN /\ sessions' = Insert(sessions, row)
            /\ created' = [ i \in DOMAIN created \cup { nextId } |->
                               IF i = nextId
                               THEN [ login |-> login, role_id |-> role_id,
                                      at |-> now ]
                               ELSE created[i] ]
            /\ last' = Done("store_user_auth", "ok", token)
    /\ nextId' = nextId + 1
    /\ gate' = NoToken
    /\ UNCHANGED << DB_CONN, hook, now, pc, tok, res, callAt >>

\* is_valid_token(token), first statement: the select.
is_valid_select(c, token) ==
    /\ DB_CONN = "open"
    /\ pc[c] = "idle"
    /\ pc' = [ pc EXCEPT ![c] = "sweep" ]
    /\ tok' = [ tok EXCEPT ![c] = token ]
    /\ res' = [ res EXCEPT ![c] = SelectExists(sessions, token, now) ]
    /\ callAt' = [ callAt EXCEPT ![c] = now ]
    /\ last' = Done("is_valid_select", "ok", "none")
    /\ gate' = NoToken
    /\ UNCHANGED << DB_CONN, hook, sessions, nextId, now, created >>

\* is_valid_token(token), second statement: the sweep, and the return.
is_valid_sweep(c) ==
    /\ pc[c] = "sweep"
    /\ sessions' = Sweep(sessions, now)
    /\ created' = Kept(created, sessions')
    /\ last' = Done("is_valid_token", "ok", res[c])
    /\ pc' = [ pc EXCEPT ![c] = "idle" ]
    /\ tok' = [ tok EXCEPT ![c] = NoToken ]
    /\ res' = [ res EXCEPT ![c] = FALSE ]
    /\ callAt' = [ callAt EXCEPT ![c] = 0 ]
    /\ gate' = IF res[c] THEN tok[c] ELSE NoToken
    /\ UNCHANGED << DB_CONN, hook, nextId, now >>

\* get_login_by_token(token): LIMIT 1 without ORDER BY returns any one of
\* the matching rows; res[0] of an empty result raises IndexError.
get_login_by_token(c, token) ==
    /\ DB_CONN = "open"
    /\ pc[c] = "idle"
    /\ IF Matching(sessions, token) = {}
       THEN last' = EmptyResult("get_login_by_token")
       ELSE \E r \in Matching(sessions, token) :
              last' = Done("get_login_by_token", "ok",
                           Strip(r.login))
    /\ gate' = NoToken
    /\ UNCHANGED << DB_CONN, hook, sessions, nextId, now, pc, tok, res,
                    callAt, created >>

\* get_role_id_by_token(token)
get_role_id_by_token(c, token) ==
    /\ DB_CONN = "open"
    /\ pc[c] = "idle"
    /\ IF Matching(sessions, token) = {}
       THEN last' = EmptyResult("get_role_id_by_token")
       ELSE \E r \in Matching(sessions, token) :
              last' = Done("get_role_id_by_token", "ok", r.role_id)
    /\ gate' = NoToken
    /\ UNCHANGED << DB_CONN, hook, sessions, nextId, now, pc, tok, res,
                    callAt, created >>

\* remove_token(token)
remove_token(c, token) ==
    /\ DB_CONN = "open"
    /\ pc[c] = "idle"
    /\ sessions' = DeleteByToken(sessions, token)
    /\ created' = Kept(created, sessions')
    /\ last' = Done("remove_token", "ok", "none")
    /\ gate' = NoToken
    /\ UNCHANGED << DB_CONN, hook, nextId, now, pc, tok, res, callAt >>

\* The operation run with assertions stripped: the call of prepare on None
\* raises AttributeError.
assert_stripped(c, op) ==
    /\ hook = "registered"
    /\ pc[c] = "idle"
    /\ DB_CONN = "None"
    /\ last' = Raise(op, "AttributeError")
    /\ gate' = NoToken
    /\ UNCHANGED << DB_CONN, hook, sessions, nextId, now, pc, tok, res,
                    callAt, created >>

\* assert DB_CONN, the first statement of each operation, when the handle
\* is not established: AssertionError, before any statement is prepared.
assert_DB_CONN(c, op) ==
    /\ hook = "registered"
    /\ pc[c] = "idle"
    /\ DB_CONN = "None"
    /\ last' = Raise(op, "AssertionError")
    /\ gate' = NoToken
    /\ UNCHANGED << DB_CONN, hook, sessions, nextId, now, pc, tok, res,
                    callAt, created >>

\* The backend rejects the first statement of an operation (the only one of
\* four of them, the select of is_valid_token): no operation has a try, so
\* the driver's exception leaves the operation and nothing of it has run.
statement_rejected(c, op) ==
    /\ DB_CONN = "open"
    /\ pc[c] = "idle"
    /\ last' = Raise(op, "postgresql.exceptions.Error")
    /\ gate' = NoToken
    /\ UNCHANGED << DB_CONN, hook, sessions, nextId, now, pc, tok, res,
                    callAt, created >>

\* The backend rejects the delete of is_valid_token: the exception leaves
\* the operation, the result of the select is not returned.
sweep_rejected(c) ==
    /\ pc[c] = "sweep"
    /\ last' = Raise("is_valid_token", "postgresql.exceptions.Error")
    /\ pc' = [ pc EXCEPT ![c] = "idle" ]
    /\ tok' = [ tok EXCEPT ![c] = NoToken ]
    /\ res' = [ res EXCEPT ![c] = FALSE ]
    /\ callAt' = [ callAt EXCEPT ![c] = 0 ]
    /\ gate' = NoToken
    /\ UNCHANGED << DB_CONN, hook, sessions, nextId, now, created >>

Next ==
    \/ configure_db
    \/ close_db
    \/ \E c \in Callers, op \in Operations : assert_DB_CONN(c, op)
    \/ Tick
    \/ \E c \in Callers, u \in Users :
         store_user_auth(c, u.login, u.role_id)
    \/ \E c \in Callers, token \in QueryTokens : is_valid_select(c, token)
    \/ \E c \in Callers : is_valid_sweep(c)
    \/ \E c \in Callers, token \in QueryTokens : get_login_by_token(c, token)
    \/ \E c \in Callers, token \in QueryTokens : get_role_id_by_token(c, token)
    \/ \E c \in Callers, token \in QueryTokens : remove_token(c, token)
    \/ \E c \in Callers, op \in Operations : statement_rejected(c, op)
    \/ \E c \in Callers : sweep_rejected(c)

Spec == Init /\ [][Next]_vars

\* is_valid_token keeps being called while the process runs: a call is
\* started whenever a handler stays free, and of the calls that reach their
\* delete not all are rejected by the backend.
Fairness ==
    /\ WF_vars(\E c \in Callers, token \in QueryTokens :
                  is_valid_select(c, token))
    /\ SF_vars(\E c \in Callers : is_valid_sweep(c))

LiveSpec == Spec /\ Fairness

TypeOK ==
    /\ DB_CONN \in { "None", "open", "closed" }
    /\ hook \in { "registered", "closed", "AttributeError" }
    /\ nextId \in 1 .. MaxIssued + 1
    /\ now \in Instants
    /\ \A r \in sessions : Len(r.token) = Width /\ Len(r.login) = Width
\* ================================================================= claims
\* expires of row r, in ticks.
ExpTicks(r) == r.expires * TicksPerSec

\* The second e is the instant t (ticks) rounded to the nearest second,
\* halves rounded up.
NearestSecond(e, t) ==
    /\ 2 * t >= 2 * e * TicksPerSec - TicksPerSec
    /\ 2 * t <  2 * e * TicksPerSec + TicksPerSec

\* C1, as stated: is_valid_token(token) returns true iff the table, as the
\* select finds it, holds a row with exactly that token whose expires is
\* strictly greater than the current time.
C1_ExactToken ==
    [][ /\ \A c \in Callers, t \in QueryTokens :
             is_valid_select(c, t) =>
               ( res'[c] <=>
                   \E r \in sessions : r.token = t /\ ExpTicks(r) > now )
        /\ \A c \in Callers :
             is_valid_sweep(c) => last'.ret = res[c] ]_vars

\* C1, amended: is_valid_token(token) returns true iff the table, as the
\* select finds it, holds a row whose token equals the given one up to
\* trailing blanks (the CHAR(64) comparison) and whose expires is strictly
\* greater than the current time; it returns false otherwise.
C1_Validity ==
    [][ /\ \A c \in Callers, t \in QueryTokens :
             is_valid_select(c, t) =>
               ( res'[c] <=>
                   \E r \in sessions : /\ RTrim(r.token) = RTrim(t)
                                       /\ ExpTicks(r) > now )
        /\ \A c \in Callers :
             is_valid_sweep(c) => last'.ret = res[c] ]_vars

\* C1 witness: a call given a stored token followed by a blank has completed
\* and returned true.
C1_Witness ==
    /\ last.op = "is_valid_token"
    /\ last.ret = TRUE
    /\ \E r \in sessions : Append(r.token, Blank) \in QueryTokens

\* C2: a token issued at time T and not revoked reports valid at every
\* check made at T' < T + 12h and invalid at every check made at
\* T' >= T + 12h.  Stated for the tokens issued on a whole second, for which
\* T + 12h is stored as it is, and whose row is still in the table.
C2_ValidityWindow ==
    [][ \A c \in Callers, t \in QueryTokens :
          is_valid_select(c, t) =>
            \A r \in sessions :
              ( r.token = t /\ created[r.id].at % TicksPerSec = 0 ) =>
                ( res'[c] <=> now < created[r.id].at + TTLTicks ) ]_vars

\* C3: when an is_valid_token call completes, the table holds no row whose
\* expires is at or before the time at which the call was made, whatever
\* token the call was given and whatever it returns.
C3_GcCoupling ==
    [][ \A c \in Callers :
          is_valid_sweep(c) =>
            \A r \in sessions' : ExpTicks(r) > callAt[c] ]_vars

\* C3 witness: a call has completed at a time when rows can have expired; a
\* row is gone from the table and another is left.
C3_Witness ==
    /\ last.op = "is_valid_token"
    /\ now >= TTLTicks
    /\ sessions # {}
    /\ Cardinality(sessions) < nextId - 1

\* C4: when is_valid_token(token) returns true, its sweep deletes no row of
\* that token which the select found unexpired.
C4_SelfPreservation ==
    [][ \A c \in Callers :
          ( is_valid_sweep(c) /\ res[c] ) =>
            \A r \in sessions :
              ( RTrim(r.token) = RTrim(tok[c]) /\ ExpTicks(r) > callAt[c] )
                => r \in sessions' ]_vars

\* C5: no two rows whose expires has not yet passed carry the same token.
C5_UniqueUnexpired ==
    \A r1 \in sessions, r2 \in sessions :
      ( r1.id # r2.id /\ ExpTicks(r1) > now /\ ExpTicks(r2) > now )
        => r1.token # r2.token

\* C6: remove_token(token) raises no error, deletes the rows matching the
\* token and no other row, and a second remove_token(token) right after it
\* leaves the table as the first one left it.
C6_RevokeIdempotent ==
    [][ \A c \in Callers, t \in QueryTokens :
          ( last'.op = "remove_token" /\ remove_token(c, t) ) =>
            /\ last'.status = "ok"
            /\ \A r \in sessions' : RTrim(r.token) # RTrim(t)
            /\ sessions' = { r \in sessions : RTrim(r.token) # RTrim(t) }
            /\ DeleteByToken(sessions', t) = sessions' ]_vars

\* C6 witness: before any row can have expired, rows were inserted and a
\* remove_token has left the table empty.
C6_Witness ==
    /\ last.op = "remove_token"
    /\ now < TTLTicks
    /\ nextId > 2
    /\ sessions = {}

\* C7: revoking the token of one session leaves in place the row of every
\* session that was issued for a different login.
C7_Isolation ==
    [][ \A c \in Callers, t \in QueryTokens :
          ( last'.op = "remove_token" /\ remove_token(c, t) ) =>
            \A r1 \in sessions, r2 \in sessions :
              ( r1.token = t /\ created[r1.id].login # created[r2.id].login )
                => r2 \in sessions' ]_vars

\* C8: for a token returned by store_user_auth(login, role_id), while its
\* row is unexpired and not revoked, get_login_by_token returns that login,
\* get_role_id_by_token returns that role_id and is_valid_token finds it
\* valid; after remove_token the token is not valid.
C8_RoundTrip ==
    [][ \A c \in Callers, t \in QueryTokens :
          /\ ( last'.op = "get_login_by_token"
               /\ get_login_by_token(c, t) ) =>
               \A r \in sessions :
                 ( r.token = t /\ ExpTicks(r) > now ) =>
                   /\ last'.status = "ok"
                   /\ last'.ret = created[r.id].login
          /\ ( last'.op = "get_role_id_by_token"
               /\ get_role_id_by_token(c, t) ) =>
               \A r \in sessions :
                 ( r.token = t /\ ExpTicks(r) > now ) =>
                   /\ last'.status = "ok"
                   /\ last'.ret = created[r.id].role_id
          /\ is_valid_select(c, t) =>
               \A r \in sessions :
                 ( r.token = t /\ ExpTicks(r) > now ) => res'[c]
          /\ ( last'.op = "remove_token" /\ remove_token(c, t) ) =>
               ~ \E r \in sessions' : r.token = t /\ ExpTicks(r) > now ]_vars

\* C9, as stated: store_user_auth(login, role_id) adds exactly one row,
\* holding the login, the role_id, the returned token and
\* expires = now + 12 hours, and leaves every other row as it was.
C9_IssueExact ==
    [][ \A c \in Callers, u \in Users :
          ( last'.op = "store_user_auth"
            /\ store_user_auth(c, u.login, u.role_id) ) =>
            \E r \in sessions' :
              /\ r \notin sessions
              /\ sessions' = sessions \cup { r }
              /\ RTrim(r.login) = u.login
              /\ r.role_id = u.role_id
              /\ r.token = last'.ret
              /\ ExpTicks(r) = now + TTLTicks ]_vars

\* C9, amended: store_user_auth(login, role_id) adds exactly one row,
\* holding the login, the role_id, the returned token and expires = now +
\* 12 hours rounded to the nearest whole second, and leaves every other row
\* as it was.
C9_IssueAddsRow ==
    [][ \A c \in Callers, u \in Users :
          ( last'.op = "store_user_auth"
            /\ store_user_auth(c, u.login, u.role_id) ) =>
            \E r \in sessions' :
              /\ r \notin sessions
              /\ sessions' = sessions \cup { r }
              /\ RTrim(r.login) = u.login
              /\ r.role_id = u.role_id
              /\ r.token = last'.ret
              /\ NearestSecond(r.expires, now + TTLTicks) ]_vars

\* C9 witness: a store_user_auth made at a fraction of a second has added a
\* row to a table that held one.
C9_Witness ==
    /\ last.op = "store_user_auth"
    /\ Cardinality(sessions) = 2
    /\ now % TicksPerSec # 0
    /\ \E r \in sessions : r.token = last.ret /\ created[r.id].at = now

\* C10, as stated: a row never changes while it is in the table, and its
\* expires equals its creation time + 12 hours.
C10_FixedExact ==
    [][ /\ \A r2 \in sessions' :
             ( \E r \in sessions : r.id = r2.id ) => r2 \in sessions
        /\ \A r \in sessions' :
             ExpTicks(r) = created'[r.id].at + TTLTicks ]_vars

\* C10, amended: a row never changes while it is in the table (no operation
\* rewrites token, login, role_id or expires), and its expires equals its
\* creation time + 12 hours rounded to the nearest whole second.
C10_Immutable ==
    [][ /\ \A r2 \in sessions' :
             ( \E r \in sessions : r.id = r2.id ) => r2 \in sessions
        /\ \A r \in sessions' :
             NearestSecond(r.expires, created'[r.id].at + TTLTicks) ]_vars

\* C10 witness: a row created at a fraction of a second is still in the
\* table after a validity check made 12 hours or more after the first
\* instant.
C10_Witness ==
    /\ last.op = "is_valid_token"
    /\ now >= TTLTicks
    /\ \E r \in sessions : created[r.id].at % TicksPerSec # 0
\* C11: an operation invoked while the handle is not established ends with
\* an AssertionError: no statement runs (the table is as before, no select
\* is pending, no id is drawn) and nothing is returned.
C11_FailFast ==
    [][ ( /\ DB_CONN = "None"
          /\ last'.op \in Operations \cup { "is_valid_select" } ) =>
          /\ last'.status = "AssertionError"
          /\ last'.ret = NoResult(last'.op)
          /\ sessions' = sessions
          /\ nextId' = nextId
          /\ pc' = pc ]_vars

\* C11 witness: an operation has been invoked before configure_db and has
\* ended with an AssertionError.
C11_Witness ==
    /\ DB_CONN = "None"
    /\ hook = "registered"
    /\ last.op = "store_user_auth"
    /\ last.status = "AssertionError"
\* C12: in every run in which configure_db was called, the shared handle
\* has been opened and the exit hook closes it: when the process has exited
\* the hook has run close on an established handle and has left it closed.
C12_ReleasedOnce ==
    ( /\ hook # "registered"
      /\ ( DB_CONN # "None" \/ last.op = "configure_db" ) ) =>
      ( hook = "closed" /\ DB_CONN = "closed" )
\* C13: a statement rejected by the backend ends the operation with a
\* failure the caller can tell from a normal return; no value is returned
\* (no token for an issue, no answer for a validity check), the table and
\* the id counter are as before (no row added), and the statement is not run
\* again: the caller's call is over.
C13_FailurePropagates ==
    [][ \A c \in Callers :
          /\ \A op \in Operations :
                statement_rejected(c, op) =>
                  /\ last'.op = op
                  /\ last'.status # "ok"
                  /\ last'.ret = NoResult(op)
                  /\ sessions' = sessions
                  /\ nextId' = nextId
                  /\ pc'[c] = "idle"
          /\ sweep_rejected(c) =>
                  /\ last'.op = "is_valid_token"
                  /\ last'.status # "ok"
                  /\ last'.ret = NoResult("is_valid_token")
                  /\ sessions' = sessions
                  /\ nextId' = nextId
                  /\ pc'[c] = "idle" ]_vars

C13_Witness ==
    /\ sessions # {}
    /\ last.op = "store_user_auth"
    /\ last.status = "postgresql.exceptions.Error"
    /\ last.ret = NoToken
\* C14: under every interleaving of the operations of concurrent callers
\* (is_valid_token taken as its select step and its sweep step), a row
\* leaves the table only in a remove_token whose token selects it or in a
\* sweep run at or after its expires; no sweep deletes an unexpired row,
\* whenever it was inserted.
C14_OnlyRevokeOrSweep ==
    [][ \A r \in sessions :
          r \notin sessions' =>
            \/ /\ last'.op = "remove_token"
               /\ \E c \in Callers, t \in QueryTokens :
                     remove_token(c, t) /\ BpcharEq(r.token, t)
            \/ /\ last'.op = "is_valid_token"
               /\ \E c \in Callers : is_valid_sweep(c)
               /\ ExpTicks(r) <= now ]_vars

\* A sweep has just run while the other caller's is_valid_token is between
\* its select and its delete, and a row inserted after that select, still
\* unexpired, is in the table.
C14_Witness ==
    /\ last.op = "is_valid_token"
    /\ last.status = "ok"
    /\ now >= TTLTicks
    /\ \E c \in Callers :
         /\ pc[c] = "sweep"
         /\ \E r \in sessions :
              /\ created[r.id].at > callAt[c]
              /\ ExpTicks(r) > now
\* C15: whenever is_valid_token(token) has returned true, the lookups
\* get_login_by_token(token) and get_role_id_by_token(token) that follow it
\* with no other operation in between (the clock may advance) find a row and
\* return normally.
C15_GatedLookup ==
    [][ \A c \in Callers, t \in QueryTokens :
          ( /\ gate = t
            /\ last'.op \in { "get_login_by_token", "get_role_id_by_token" }
            /\ \/ get_login_by_token(c, t)
               \/ get_role_id_by_token(c, t) ) =>
            last'.status = "ok" ]_vars
\* C16: get_login_by_token and get_role_id_by_token do not look at expires
\* and change nothing: for a token all of whose rows have expired and are
\* still in the table they return the login stored in such a row, without
\* its padding, and its role_id, and the table is as before.
C16_ExpiredLookup ==
    [][ \A c \in Callers, t \in QueryTokens :
          /\ ( /\ last'.op = "get_login_by_token"
                /\ get_login_by_token(c, t)
                /\ Matching(sessions, t) # {}
                /\ \A r \in Matching(sessions, t) : Expired(r, now) ) =>
                /\ last'.status = "ok"
                /\ \E r \in Matching(sessions, t) :
                      last'.ret = RTrim(r.login)
                /\ sessions' = sessions
          /\ ( /\ last'.op = "get_role_id_by_token"
                /\ get_role_id_by_token(c, t)
                /\ Matching(sessions, t) # {}
                /\ \A r \in Matching(sessions, t) : Expired(r, now) ) =>
                /\ last'.status = "ok"
                /\ \E r \in Matching(sessions, t) :
                      last'.ret = r.role_id
                /\ sessions' = sessions ]_vars
\* C17: get_login_by_token and get_role_id_by_token called with a token
\* that selects no row of the table (never issued, revoked or swept) end
\* with an IndexError, return no value and leave the table unchanged: a
\* step of a lookup either has that outcome or is not a step of the lookup
\* with a token that selects no row.
C17_EmptyResult ==
    [][ /\ last'.op = "get_login_by_token" =>
            \/ /\ last'.status = "IndexError"
               /\ last'.ret = NoResult("get_login_by_token")
               /\ sessions' = sessions
            \/ \A c \in Callers, t \in QueryTokens :
                 Matching(sessions, t) = {} => ~ get_login_by_token(c, t)
        /\ last'.op = "get_role_id_by_token" =>
            \/ /\ last'.status = "IndexError"
               /\ last'.ret = NoResult("get_role_id_by_token")
               /\ sessions' = sessions
            \/ \A c \in Callers, t \in QueryTokens :
                 Matching(sessions, t) = {} => ~ get_role_id_by_token(c, t)
      ]_vars

\* A lookup has failed on a token that was issued and whose row has left
\* the table.
C17_Witness ==
    /\ last.op \in { "get_login_by_token", "get_role_id_by_token" }
    /\ last.status = "IndexError"
    /\ sessions = {}
    /\ nextId > 1
\* C18: provided is_valid_token keeps being called, every row whose expires
\* has passed is eventually removed from the table: a table that holds such
\* rows eventually holds none of them (or the process has exited); and a row whose expires has passed leaves the table only in the
\* sweep of is_valid_token or in a remove_token of its own token, never in
\* store_user_auth, a lookup or a remove_token of another token.
C18_GarbageCollected ==
    /\ ( \E r \in sessions : ExpTicks(r) <= now ) ~>
         ( \/ ~ \E r \in sessions : ExpTicks(r) <= now
           \/ hook # "registered" )
    /\ [][ \A r \in sessions :
             ( ExpTicks(r) <= now /\ r \notin sessions' ) =>
               \/ last'.op = "is_valid_token" /\ last'.status = "ok"
               \/ /\ last'.op = "remove_token"
                  /\ \E c \in Callers, t \in QueryTokens :
                        remove_token(c, t) /\ BpcharEq(r.token, t) ]_vars

\* A sweep has removed every row while the process runs, after the time at
\* which the rows issued had expired.
C18_Witness ==
    /\ last.op = "is_valid_token"
    /\ last.status = "ok"
    /\ hook = "registered"
    /\ nextId > 1
    /\ sessions = {}
    /\ now >= TTLTicks
====
